---- MODULE Spec2Model ----
(***************************************************************************)
(* node-dust: a promise-based wrapper that spawns the dust binary          *)
(* (index.ts, kept as src/unnamed/part_000) and the post-install script    *)
(* that downloads the binary (src/scripts/install.js).                     *)
(*                                                                         *)
(* Spec         one nodeDust(args, options) call and the events the child  *)
(*              process delivers to the handlers the call registered.      *)
(* InstallSpec  one run of scripts/install.js main().                      *)
(*                                                                         *)
(* Strings are sequences of code points, Buffers are sequences of bytes,   *)
(* paths are sequences of segments.  An optional JavaScript value is <<>>  *)
(* when undefined and <<v>> when it is v.                                  *)
(*                                                                         *)
(* Environment assumptions of Spec (Node's child_process):                 *)
(*  - spawn() returns a ChildProcess; a synchronous throw of spawn()       *)
(*    (argument validation) is not modelled;                               *)
(*  - 'error' is emitted for a failed spawn (followed by 'close' with the  *)
(*    negative errno) and for an abort through spawnOptions.signal of a    *)
(*    process that is running; at most once, never after 'close';          *)
(*  - 'close' is emitted once, after the last 'data' of both streams;      *)
(*  - onStdOut / onStdErr return normally.                                 *)
(***************************************************************************)
EXTENDS Integers, Sequences, FiniteSets, TLC

(* ------------------------------ bounds --------------------------------- *)
\* data events one child delivers, over both streams
MaxChunks == 3

(* --------------------------- value encodings --------------------------- *)
Undefined == <<>>
Some(v) == <<v>>
IsDefined(o) == Len(o) > 0
\* number | null, as delivered with 'close'
Null == <<>>
Num(n) == <<n>>

RECURSIVE Concat(_)
Concat(ss) == IF ss = <<>> THEN <<>> ELSE Head(ss) \o Concat(Tail(ss))

VARIABLES
  platform,           \* os.platform() of the host
  pc,                 \* "ready" | "running"
  callArgs,           \* the args the caller passed
  callOptions,        \* the options the caller passed
  spawned,            \* the calls made to child_process.spawn
  child,              \* the ChildProcess spawn returned
  stdout, stderr,     \* the accumulators of the call
  promise,            \* the promise nodeDust returned
  outCalls, errCalls, \* the invocations of onStdOut / onStdErr
  outData, errData,   \* Buffers the child's stdout / stderr emitted so far
  errorEvent,         \* the Error of the 'error' event, once emitted
  closeEvent,         \* the (code, signal) of the 'close' event, once emitted
  settledBy,          \* the event whose handler settled the promise
  plain,              \* the same call with onStdOut / onStdErr omitted
  inst                \* the state of scripts/install.js

vars == <<platform, pc, callArgs, callOptions, spawned, child, stdout, stderr,
          promise, outCalls, errCalls, outData, errData, errorEvent,
          closeEvent, settledBy, plain, inst>>

dustVars == <<platform, pc, callArgs, callOptions, spawned, child, stdout,
              stderr, promise, outCalls, errCalls, outData, errData,
              errorEvent, closeEvent, settledBy, plain>>

(* ------------------------- getDustBinaryPath --------------------------- *)
\* path.dirname(fileURLToPath(import.meta.url)) of the compiled dist/index.js
ModuleDir == <<"node-dust", "dist">>

RECURSIVE Normalize(_, _)
Normalize(done, rest) ==
  IF rest = <<>> THEN done
  ELSE IF Head(rest) = ".." /\ done # <<>>
       THEN Normalize(SubSeq(done, 1, Len(done) - 1), Tail(rest))
       ELSE Normalize(Append(done, Head(rest)), Tail(rest))

PathJoin(segments) == Normalize(<<>>, segments)

getDustBinaryPath(plat) ==
  LET binaryName == IF plat = "win32" THEN "dust.exe" ELSE "dust"
  IN  PathJoin(ModuleDir \o <<"..", "bin", binaryName>>)

defaultBinaryPath == getDustBinaryPath(platform)

(* ------------------------- Buffer.toString() --------------------------- *)
Replacement == 65533

IsLead2(b) == b >= 194 /\ b <= 223
IsCont(b) == b >= 128 /\ b <= 191

RECURSIVE BufferToString(_)
BufferToString(data) ==
  IF data = <<>> THEN <<>>
  ELSE IF Head(data) < 128 THEN <<Head(data)>> \o BufferToString(Tail(data))
  ELSE IF IsLead2(Head(data)) /\ Len(data) >= 2 /\ IsCont(data[2])
       THEN <<(Head(data) - 192) * 64 + (data[2] - 128)>>
            \o BufferToString(SubSeq(data, 3, Len(data)))
       ELSE <<Replacement>> \o BufferToString(Tail(data))

\* the Buffers a 'data' event can carry: "a", the character U+00E9 whole
\* (0xC3 0xA9), its first byte alone and its second byte alone
Buffers == {<<97>>, <<195, 169>>, <<195>>, <<169>>}

(* ------------------------------ inputs --------------------------------- *)
ArgsChoices == {<<".">>, <<"-d", "1">>}

EmptyObject == [stdio |-> Undefined, signal |-> Undefined, cwd |-> Undefined]

\* the SpawnOptions a caller passes
SpawnOptionsChoices ==
  { EmptyObject,
    [EmptyObject EXCEPT !.stdio = Some(<<"pipe", "pipe", "ignore">>)],
    [EmptyObject EXCEPT !.stdio = Some(<<"pipe", "ignore", "pipe">>)],
    [EmptyObject EXCEPT !.signal = Some("AbortSignal")],
    [EmptyObject EXCEPT !.cwd = Some(<<"non", "existent", "path">>)] }

CustomBinaryPath == <<"opt", "dust">>

\* NodeDustOptions; nodeDust(args) alone is the options with every field
\* undefined (the default parameter {})
OptionsChoices ==
  [ spawnOptions : {Undefined} \cup {Some(o) : o \in SpawnOptionsChoices},
    onStdOut     : {Undefined, Some("onStdOut")},
    onStdErr     : {Undefined, Some("onStdErr")},
    binaryPath   : {Undefined, Some(CustomBinaryPath)} ]

NoOptions ==
  [spawnOptions |-> Undefined, onStdOut |-> Undefined, onStdErr |-> Undefined,
   binaryPath |-> Undefined]

ExitCodes == {0, 2}
\* the errno 'close' carries after a failed spawn (ENOENT)
SpawnErrno == 0 - 2

(* ------------------------------ nodeDust ------------------------------- *)
NoResult == [stdout |-> <<>>, stderr |-> <<>>, code |-> Null, error |-> Undefined]
Pending == [state |-> "pending", value |-> NoResult]

\* resolve(value) of the Promise executor: only the first settlement counts
Resolve(p, value) ==
  IF p.state = "pending" THEN [state |-> "fulfilled", value |-> value] ELSE p

Reject(p, reason) ==
  IF p.state = "pending"
  THEN [state |-> "rejected", value |-> [NoResult EXCEPT !.error = Some(reason)]]
  ELSE p

\* const { spawnOptions = {}, onStdOut, onStdErr, binaryPath = defaultBinaryPath }
\* = options;  spawn(binaryPath, args, spawnOptions)
SpawnCallAlwaysDefault(args, options, default) ==
  [ file    |-> default,
    args    |-> args,
    options |-> IF IsDefined(options.spawnOptions)
                THEN options.spawnOptions[1] ELSE EmptyObject ]

SpawnCall(args, options, default) ==
  [ file    |-> IF IsDefined(options.binaryPath)
                THEN options.binaryPath[1] ELSE default,
    args    |-> args,
    options |-> IF IsDefined(options.spawnOptions)
                THEN options.spawnOptions[1] ELSE EmptyObject ]

\* child.stdout / child.stderr exist unless stdio makes them null
Piped(spawnOptions, fd) ==
  IF IsDefined(spawnOptions.stdio) THEN spawnOptions.stdio[1][fd + 1] = "pipe"
  ELSE TRUE

\* the ChildProcess objects spawn can return for a call
Children(call) ==
  { [ok |-> ok, stdout |-> Piped(call.options, 1), stderr |-> Piped(call.options, 2)] :
      ok \in IF IsDefined(call.options.cwd) THEN {FALSE} ELSE BOOLEAN }

NoChild == [ok |-> FALSE, stdout |-> FALSE, stderr |-> FALSE]

\* child.stdout.on("data", ...): the callback sees the chunk while the
\* accumulator still lacks it (field acc: the accumulator at the call)
StdoutOnDataAppendFirst(acc, callback, calls, data) ==
  LET chunk == BufferToString(data)
  IN  [ calls |-> IF IsDefined(callback)
                  THEN Append(calls, [data |-> chunk, acc |-> acc \o chunk])
                  ELSE calls,
        acc   |-> acc \o chunk ]

StdoutOnDataElse(acc, callback, calls, data) ==
  LET chunk == BufferToString(data)
  IN  [ calls |-> IF IsDefined(callback)
                  THEN Append(calls, [data |-> chunk, acc |-> acc])
                  ELSE calls,
        acc   |-> IF IsDefined(callback) THEN acc ELSE acc \o chunk ]

StdoutOnData(acc, callback, calls, data) ==
  LET chunk == BufferToString(data)
  IN  [ calls |-> IF IsDefined(callback)
                  THEN Append(calls, [data |-> chunk, acc |-> acc])
                  ELSE calls,
        acc   |-> acc \o chunk ]

\* child.stderr.on("data", ...)
StderrOnData(acc, callback, calls, data) ==
  LET chunk == BufferToString(data)
  IN  [ calls |-> IF IsDefined(callback)
                  THEN Append(calls, [data |-> chunk, acc |-> acc])
                  ELSE calls,
        acc   |-> acc \o chunk ]

\* child.on("error", ...)
OnErrorRejects(p, out, err, e) == Reject(p, e)

OnError(p, out, err, e) ==
  Resolve(p, [stdout |-> out, stderr |-> err, code |-> Num(1), error |-> Some(e)])

\* child.on("close", ...)
OnCloseZeroForNull(p, out, err, code) ==
  Resolve(p, [stdout |-> out, stderr |-> err,
              code |-> IF code = Null THEN Num(0) ELSE code, error |-> Undefined])

OnClose(p, out, err, code) ==
  Resolve(p, [stdout |-> out, stderr |-> err, code |-> code, error |-> Undefined])

NoPlain == [stdout |-> <<>>, stderr |-> <<>>, promise |-> Pending]
\* scripts/install.js is not running
NoInstall == [pc |-> "off"]

Init ==
  /\ platform \in {"linux", "win32"}
  /\ pc = "ready"
  /\ callArgs = <<>>
  /\ callOptions = NoOptions
  /\ spawned = <<>>
  /\ child = NoChild
  /\ stdout = <<>>
  /\ stderr = <<>>
  /\ promise = Pending
  /\ outCalls = <<>>
  /\ errCalls = <<>>
  /\ outData = <<>>
  /\ errData = <<>>
  /\ errorEvent = Undefined
  /\ closeEvent = Undefined
  /\ settledBy = "none"
  /\ plain = NoPlain
  /\ inst = NoInstall

NodeDust(args, options) ==
  /\ pc = "ready"
  /\ pc' = "running"
  /\ callArgs' = args
  /\ callOptions' = options
  /\ LET call == SpawnCall(args, options, defaultBinaryPath)
     IN  /\ spawned' = Append(spawned, call)
         /\ child' \in Children(call)
  /\ stdout' = <<>>
  /\ stderr' = <<>>
  /\ promise' = Pending
  /\ plain' = NoPlain
  /\ UNCHANGED <<platform, outCalls, errCalls, outData, errData, errorEvent,
                 closeEvent, settledBy, inst>>

Running == pc = "running" /\ closeEvent = Undefined
Emitted == Len(outData) + Len(errData)

StdoutData(data) ==
  /\ Running /\ child.ok /\ child.stdout
  /\ Emitted < MaxChunks
  /\ LET r == StdoutOnData(stdout, callOptions.onStdOut, outCalls, data)
         q == StdoutOnData(plain.stdout, Undefined, <<>>, data)
     IN  /\ stdout' = r.acc
         /\ outCalls' = r.calls
         /\ plain' = [plain EXCEPT !.stdout = q.acc]
  /\ outData' = Append(outData, data)
  /\ UNCHANGED <<platform, pc, callArgs, callOptions, spawned, child, stderr,
                 promise, errCalls, errData, errorEvent, closeEvent, settledBy,
                 inst>>

StderrData(data) ==
  /\ Running /\ child.ok /\ child.stderr
  /\ Emitted < MaxChunks
  /\ LET r == StderrOnData(stderr, callOptions.onStdErr, errCalls, data)
         q == StderrOnData(plain.stderr, Undefined, <<>>, data)
     IN  /\ stderr' = r.acc
         /\ errCalls' = r.calls
         /\ plain' = [plain EXCEPT !.stderr = q.acc]
  /\ errData' = Append(errData, data)
  /\ UNCHANGED <<platform, pc, callArgs, callOptions, spawned, child, stdout,
                 promise, outCalls, outData, errorEvent, closeEvent, settledBy,
                 inst>>

Errors == {"ENOENT", "AbortError"}

\* the Error an 'error' event can carry now
PossibleErrors ==
  IF ~child.ok THEN {"ENOENT"}
  ELSE IF IsDefined(spawned[1].options.signal) THEN {"AbortError"}
  ELSE {}

ChildError(e) ==
  /\ Running /\ errorEvent = Undefined
  /\ e \in PossibleErrors
  /\ errorEvent' = Some(e)
  /\ promise' = OnError(promise, stdout, stderr, e)
  /\ plain' = [plain EXCEPT !.promise = OnError(@, plain.stdout, plain.stderr, e)]
  /\ settledBy' = IF promise.state = "pending" THEN "error" ELSE settledBy
  /\ UNCHANGED <<platform, pc, callArgs, callOptions, spawned, child, stdout,
                 stderr, outCalls, errCalls, outData, errData, closeEvent, inst>>

Closes ==
  {<<Num(c), Null>> : c \in ExitCodes \cup {SpawnErrno}} \cup {<<Null, Some("SIGTERM")>>}

\* the (code, signal) a 'close' event can carry now
PossibleCloses ==
  IF child.ok
  THEN {<<Num(c), Null>> : c \in ExitCodes} \cup {<<Null, Some("SIGTERM")>>}
  ELSE {<<Num(SpawnErrno), Null>>}

ChildClose(cs) ==
  /\ Running
  /\ child.ok \/ IsDefined(errorEvent)
  /\ cs \in PossibleCloses
  /\ closeEvent' = Some(cs)
  /\ promise' = OnClose(promise, stdout, stderr, cs[1])
  /\ plain' = [plain EXCEPT !.promise = OnClose(@, plain.stdout, plain.stderr, cs[1])]
  /\ settledBy' = IF promise.state = "pending" THEN "close" ELSE settledBy
  /\ UNCHANGED <<platform, pc, callArgs, callOptions, spawned, child, stdout,
                 stderr, outCalls, errCalls, outData, errData, errorEvent, inst>>

Next ==
  \/ \E args \in ArgsChoices, options \in OptionsChoices : NodeDust(args, options)
  \/ \E data \in Buffers : StdoutData(data)
  \/ \E data \in Buffers : StderrData(data)
  \/ \E e \in Errors : ChildError(e)
  \/ \E cs \in Closes : ChildClose(cs)

Spec == Init /\ [][Next]_vars

(* ------------------------- properties of Spec -------------------------- *)
\* the strings the 'data' handlers made of the Buffers emitted so far
Chunks(buffers) == [i \in 1..Len(buffers) |-> BufferToString(buffers[i])]
Passed(calls) == [i \in 1..Len(calls) |-> calls[i].data]
Closed == IsDefined(closeEvent)
CloseCode == closeEvent[1][1]
CloseSignal == closeEvent[1][2]

\* C1: the 'error' event of a child that failed to spawn fulfils the promise
\* with a result whose error is that Error and whose code is 1, and no
\* sequence of child events rejects the promise.
C1_SpawnErrorIsResolved ==
  /\ promise.state # "rejected"
  /\ (pc = "running" /\ ~child.ok /\ IsDefined(errorEvent)) =>
       /\ promise.state = "fulfilled"
       /\ promise.value.error = errorEvent
       /\ promise.value.code = Num(1)

C1_Witness ==
  /\ pc = "running" /\ ~child.ok
  /\ errorEvent = Some("ENOENT")
  /\ Closed
  /\ promise.state = "fulfilled"

\* C2: a child that started and exited with a non-zero code fulfils the
\* promise with error undefined and code equal to that exit code; error is
\* defined only for a child that failed to spawn.
C2_StartedChildHasNoError ==
  /\ (pc = "running" /\ child.ok /\ Closed /\ CloseCode # Null /\ CloseCode # Num(0)) =>
       /\ promise.state = "fulfilled"
       /\ promise.value.error = Undefined
       /\ promise.value.code = CloseCode
  /\ (promise.state = "fulfilled" /\ IsDefined(promise.value.error)) => ~child.ok

\* C3: once the child has closed, the resolved stdout (stderr) is the
\* concatenation, in arrival order, of every chunk the child's stdout
\* (stderr) emitted in its whole life, whichever event resolved the promise.
C3_ResultHoldsEveryChunk ==
  (Closed /\ promise.state = "fulfilled") =>
    /\ promise.value.stdout = Concat(Chunks(outData))
    /\ promise.value.stderr = Concat(Chunks(errData))

\* C4: a provided onStdOut (onStdErr) is invoked once per chunk, with that
\* chunk, in arrival order, before the chunk is appended to the accumulator;
\* when 'close' resolves the promise, the data passed to the callback
\* concatenate to the resolved stdout (stderr).
CalledPerChunk(calls, buffers) ==
  /\ Len(calls) = Len(buffers)
  /\ \A i \in 1..Len(calls) :
       /\ calls[i].data = BufferToString(buffers[i])
       /\ calls[i].acc = Concat(SubSeq(Chunks(buffers), 1, i - 1))

C4_CallbackPerChunk ==
  /\ IsDefined(callOptions.onStdOut) =>
       /\ CalledPerChunk(outCalls, outData)
       /\ settledBy = "close" => Concat(Passed(outCalls)) = promise.value.stdout
  /\ IsDefined(callOptions.onStdErr) =>
       /\ CalledPerChunk(errCalls, errData)
       /\ settledBy = "close" => Concat(Passed(errCalls)) = promise.value.stderr

C4_Witness ==
  /\ IsDefined(callOptions.onStdOut) /\ IsDefined(callOptions.onStdErr)
  /\ Len(outCalls) = 2 /\ Len(errCalls) = 1
  /\ outCalls[1].data # outCalls[2].data
  /\ settledBy = "close"

\* C5: the call with onStdOut / onStdErr omitted, fed the same child events,
\* is settled at the same events with the same stdout, stderr, code and error.
C5_CallbacksDoNotChangeOutcome ==
  plain.promise = promise

C5_Witness ==
  /\ IsDefined(callOptions.onStdOut) /\ IsDefined(callOptions.onStdErr)
  /\ outCalls # <<>> /\ errCalls # <<>>
  /\ promise.state = "fulfilled"
  /\ plain.promise = promise

\* C6: when no 'error' event came before 'close', the resolved code is the
\* code 'close' delivered: the exit code, or null exactly when the child was
\* ended by a signal.
C6_CodeIsCloseCode ==
  (Closed /\ errorEvent = Undefined) =>
    /\ promise.state = "fulfilled"
    /\ promise.value.code = CloseCode
    /\ promise.value.code = Null <=> IsDefined(CloseSignal)

C6_Witness ==
  /\ Closed /\ errorEvent = Undefined
  /\ CloseCode = Null
  /\ promise.value.code = Null

\* C7: a call spawns once: the args as given, the caller's spawnOptions as
\* given, the file options.binaryPath or else the path getDustBinaryPath
\* resolves; no event, a spawn error included, brings a second spawn.
C7_SpawnsOnce ==
  IF pc = "ready" THEN spawned = <<>>
  ELSE /\ Len(spawned) = 1
       /\ spawned[1].args = callArgs
       /\ IsDefined(callOptions.spawnOptions) =>
            spawned[1].options = callOptions.spawnOptions[1]
       /\ spawned[1].file = IF IsDefined(callOptions.binaryPath)
                            THEN callOptions.binaryPath[1]
                            ELSE getDustBinaryPath(platform)

C7_Witness ==
  /\ pc = "running" /\ ~child.ok /\ IsDefined(errorEvent) /\ Closed
  /\ IsDefined(callOptions.binaryPath)
  /\ IsDefined(callOptions.spawnOptions)
  /\ Len(spawned) = 1
  /\ Len(spawned[1].args) = 2

\* C12: once the promise is settled, no step invokes onStdOut or onStdErr
\* again, and the settled result (its stdout and stderr) stays as it is.
C12_NoCallbackAfterResolution ==
  [][promise.state # "pending" =>
       /\ outCalls' = outCalls
       /\ errCalls' = errCalls
       /\ promise' = promise]_vars

(* ------------------------- scripts/install.js -------------------------- *)
RequestedChoices == {Undefined, Some("v1.2.0"), Some("v1.2.3")}
\* release.tag_name of the latest GitHub release
LatestTag == "v1.2.3"
ProcessPlatforms == {"win32", "linux", "darwin", "freebsd"}
ProcessArchs == {"x64", "ia32", "arm64", "arm"}
\* fetch: a response with ok, a response without ok, a rejection
FetchOutcomes == {"ok", "notok", "throw"}
\* where the archive keeps the binary: <dir>/dust, <dir>/<sub>/dust, nowhere
ArchiveLayouts == {"top", "nested", "missing"}
\* 0o755, and the 0o644 of a freshly written file
ModeExecutable == 493
ModeWritten == 420

getAssetName(version, plat, identifier) ==
  LET extension == IF plat = "win32" THEN "zip" ELSE "tar.gz"
  IN  <<"dust", version, identifier, extension>>

\* `${baseUrl}/${version}/${assetName}`
Url(version, assetName) == [version |-> version, asset |-> assetName]

\* the asset identifier of the host, undefined when main sets none
Identifier(plat, arch) ==
  IF plat = "win32" THEN
    IF arch = "x64" THEN Some("x86_64-pc-windows-msvc")
    ELSE IF arch = "ia32" THEN Some("i686-pc-windows-msvc")
    ELSE Undefined
  ELSE IF plat = "linux" THEN
    IF arch = "x64" THEN Some("x86_64-unknown-linux-musl")
    ELSE IF arch = "ia32" THEN Some("i686-unknown-linux-musl")
    ELSE IF arch = "arm64" THEN Some("aarch64-unknown-linux-musl")
    ELSE IF arch = "arm" THEN Some("arm-unknown-linux-musleabi")
    ELSE Undefined
  ELSE IF plat = "darwin" THEN
    IF arch = "x64" THEN Some("x86_64-apple-darwin") ELSE Undefined
  ELSE Undefined

\* if (requestedVersion) version = requestedVersion; else version = latestVersion
SelectVersionAlwaysLatest(requestedVersion, latestVersion) == latestVersion

SelectVersion(requestedVersion, latestVersion) ==
  IF IsDefined(requestedVersion) THEN requestedVersion[1] ELSE latestVersion

NoBinary == [exists |-> FALSE, mode |-> 0]

InstallStates ==
  { [ pc        |-> "start",
      requested |-> r,             \* process.env.npm_config_dust_ver
      platform  |-> p,             \* process.platform
      arch      |-> a,             \* process.arch
      latest    |-> Undefined,     \* latestVersion
      url       |-> Undefined,     \* the url being fetched
      attempts  |-> <<>>,          \* the downloads that got a response
      threw     |-> FALSE,         \* a step other than the last download threw
      reported  |-> FALSE,         \* 'Downloaded and extracted to' was logged
      exitCode  |-> Undefined,     \* the argument of process.exit
      binDir    |-> d,             \* bin/ exists
      binary    |-> IF d THEN [exists |-> TRUE, mode |-> ModeExecutable]
                    ELSE NoBinary, \* bin/dust or bin/dust.exe
      stream    |-> "none",        \* the extraction the response is piped into
      layout    |-> "missing" ] :
    r \in RequestedChoices, p \in ProcessPlatforms, a \in ProcessArchs,
    d \in BOOLEAN }

\* catch (error) { ...; process.exit(1); }
Exit1(s) == [s EXCEPT !.pc = "exited", !.exitCode = Some(1)]

\* main up to its first await: getLatestReleaseVersion's fetch
Main ==
  /\ inst.pc = "start"
  /\ inst' = [inst EXCEPT !.pc = "awaitLatest"]
  /\ UNCHANGED dustVars

\* getLatestReleaseVersion's response, then main up to the fetch of the
\* first downloadAndExtract
LatestResponse(r) ==
  /\ inst.pc = "awaitLatest"
  /\ LET version == SelectVersion(inst.requested, LatestTag)
         identifier == Identifier(inst.platform, inst.arch)
     IN  inst' =
           IF r # "ok" THEN Exit1([inst EXCEPT !.threw = TRUE])
           ELSE IF ~IsDefined(identifier)
           THEN Exit1([inst EXCEPT !.latest = Some(LatestTag), !.threw = TRUE])
           ELSE [inst EXCEPT
                   !.pc = "awaitDownload1",
                   !.latest = Some(LatestTag),
                   !.url = Some(Url(version,
                             getAssetName(version, inst.platform, identifier[1]))),
                   !.binDir = TRUE,
                   !.binary = NoBinary]
  /\ UNCHANGED dustVars

\* downloadAndExtract from its response on, then main up to its next await
DownloadResponse(r, layout) ==
  /\ inst.pc \in {"awaitDownload1", "awaitDownload2"}
  /\ LET url == inst.url[1]
         tried == [inst EXCEPT
                     !.attempts = Append(@, [url |-> url, ok |-> r = "ok"])]
         identifier == Identifier(inst.platform, inst.arch)
     IN  inst' =
           IF r = "throw" THEN Exit1([inst EXCEPT !.threw = TRUE])
           ELSE IF r = "ok"
           THEN [tried EXCEPT !.pc = "done", !.reported = TRUE,
                              !.stream = "piped", !.layout = layout]
           ELSE IF inst.pc = "awaitDownload1"
           THEN [tried EXCEPT
                   !.pc = "awaitDownload2",
                   !.url = Some(Url(inst.latest[1],
                             getAssetName(inst.latest[1], inst.platform,
                                          identifier[1])))]
           ELSE Exit1(tried)
  /\ UNCHANGED dustVars

\* the archive entry named dust / dust.exe reaches finalBinaryPath: unzipper
\* matches the basename of any entry, tar.x strips one directory
WritesBinary(url, layout) ==
  \/ layout = "top"
  \/ layout = "nested" /\ url.asset[4] = "zip"

\* the extraction writes the binary
ExtractEntry ==
  /\ inst.stream = "piped"
  /\ WritesBinary(inst.url[1], inst.layout)
  /\ inst' = [inst EXCEPT !.stream = "written",
                          !.binary = [exists |-> TRUE, mode |-> ModeWritten]]
  /\ UNCHANGED dustVars

\* .on('finish', ...): fs.chmodSync(finalBinaryPath, 0o755) of a binary that
\* is there
ExtractFinish ==
  /\ \/ inst.stream = "written"
     \/ inst.stream = "piped" /\ ~WritesBinary(inst.url[1], inst.layout)
  /\ inst' = [inst EXCEPT
                !.stream = "finished",
                !.binary = IF @.exists THEN [@ EXCEPT !.mode = ModeExecutable]
                           ELSE @]
  /\ UNCHANGED dustVars

InstallInit ==
  /\ platform = "linux"
  /\ pc = "ready"
  /\ callArgs = <<>>
  /\ callOptions = NoOptions
  /\ spawned = <<>>
  /\ child = NoChild
  /\ stdout = <<>>
  /\ stderr = <<>>
  /\ promise = Pending
  /\ outCalls = <<>>
  /\ errCalls = <<>>
  /\ outData = <<>>
  /\ errData = <<>>
  /\ errorEvent = Undefined
  /\ closeEvent = Undefined
  /\ settledBy = "none"
  /\ plain = NoPlain
  /\ inst \in InstallStates

InstallNext ==
  \/ Main
  \/ \E r \in FetchOutcomes : LatestResponse(r)
  \/ \E r \in FetchOutcomes, layout \in ArchiveLayouts : DownloadResponse(r, layout)
  \/ ExtractEntry
  \/ ExtractFinish

InstallSpec == InstallInit /\ [][InstallNext]_vars

(* ---------------------- properties of InstallSpec ---------------------- *)
Attempted(i) == inst.attempts[i].url.version

\* C8: with no version requested every download is of the latest release;
\* a requested version is tried first and the latest release only after that
\* download failed; process.exit(1) happens only when the last download, of
\* the latest release, failed or when an earlier step threw.
C8_VersionSelection ==
  /\ ~IsDefined(inst.requested) =>
       \A i \in 1..Len(inst.attempts) : Attempted(i) = LatestTag
  /\ IsDefined(inst.requested) =>
       /\ Len(inst.attempts) >= 1 => Attempted(1) = inst.requested[1]
       /\ Len(inst.attempts) >= 2 =>
            ~inst.attempts[1].ok /\ Attempted(2) = LatestTag
  /\ Len(inst.attempts) <= 2
  /\ inst.exitCode = Some(1) =>
       \/ inst.threw
       \/ /\ Len(inst.attempts) = 2
          /\ Attempted(2) = LatestTag
          /\ ~inst.attempts[2].ok
  /\ inst.exitCode \in {Undefined, Some(1)}

C8_Witness ==
  /\ inst.requested = Some("v1.2.0")
  /\ Len(inst.attempts) = 2
  /\ ~inst.attempts[1].ok /\ Attempted(1) = "v1.2.0"
  /\ inst.attempts[2].ok /\ Attempted(2) = LatestTag
  /\ inst.pc = "done"

\* C9: once downloadAndExtract has reported success, and so once main has
\* completed without error, the binary exists at bin/dust (bin/dust.exe) with
\* mode 0755.
C9_SuccessMeansInstalled ==
  inst.reported => inst.binary.exists /\ inst.binary.mode = ModeExecutable

====
